---- MODULE Spec2Model ----
(***************************************************************************)
(* Model of the Meshy client of model-synth: the request executor of       *)
(* MeshyBaseClient (rate limiting, retry loop, error classification,       *)
(* backoff) as a state machine of cooperatively interleaved request calls, *)
(* and the poll operations of the API classes built on it.  Times are in   *)
(* milliseconds, as in the source.                                         *)
(***************************************************************************)
EXTENDS Integers, Sequences, FiniteSets, TLC

(***************************************************************************)
(* Bounds of the model.                                                    *)
(***************************************************************************)
\* number of request calls that may be in flight on the one client instance
NumCalls == 2
\* largest configured retryConfig.maxRetries the executor runs are drawn from
MaxMaxRetries == 2
\* the clock stops advancing at this time (ms)
MaxTime == 3600
\* the step by which the clock advances when no timer is due (ms)
TickMs == 500
\* Math.random() is drawn as k / RandDenom, k in 0 .. RandDenom - 1
RandDenom == 10
\* largest attempt index the pure backoff runs are drawn from
MaxBackoffAttempt == 4
\* the greatest maxRetries a poll operation is called with
MaxPollRetries == 3

(***************************************************************************)
(* Program constants.                                                      *)
(***************************************************************************)
requestsPerSecond == 20
rateLimitWindow == 1000
rateLimitBuffer == 100
DefaultMaxRetries == 3
DefaultBaseDelay == 1000
DefaultMaxDelay == 10000
DefaultRetryOn == {429, 500, 502, 503, 504}
\* getTask: the retries after a 404 and the unit of the wait between them
NotFoundRetries == 3
NotFoundWait == 2000
\* the poll operations: the default of intervalMs
IntervalMs == 10000

Calls == 1 .. NumCalls

(***************************************************************************)
(* RetryConfig: the constructor merges the caller's partial configuration  *)
(* over DEFAULT_RETRY_CONFIG and validates nothing.                        *)
(***************************************************************************)
DEFAULT_RETRY_CONFIG ==
  [maxRetries |-> DefaultMaxRetries, baseDelay |-> DefaultBaseDelay,
   maxDelay |-> DefaultMaxDelay, retryOn |-> DefaultRetryOn]

\* { ...DEFAULT_RETRY_CONFIG, ...retryConfig }: partial is a record holding
\* some of the four fields; a field it holds replaces the default.
MergeConfig(partial) ==
  [f \in DOMAIN DEFAULT_RETRY_CONFIG |->
     IF f \in DOMAIN partial THEN partial[f] ELSE DEFAULT_RETRY_CONFIG[f]]

(***************************************************************************)
(* Error values.  A MeshyError carries name, statusCode, message and       *)
(* responseBody; responseBody is <<>> when the constructor was given none  *)
(* (undefined) and <<errorData>> otherwise.                                *)
(***************************************************************************)
MeshyError(message, statusCode, responseBody) ==
  [name |-> "MeshyError", message |-> message, statusCode |-> statusCode,
   responseBody |-> responseBody]

MeshyRateLimitError(message, responseBody) ==
  [name |-> "MeshyRateLimitError", message |-> message, statusCode |-> 429,
   responseBody |-> responseBody]

MeshyAuthError(message) ==
  [name |-> "MeshyAuthError", message |-> message, statusCode |-> 401,
   responseBody |-> <<>>]

MeshyPaymentError(message) ==
  [name |-> "MeshyPaymentError", message |-> message, statusCode |-> 402,
   responseBody |-> <<>>]

\* error.statusCode and error.responseBody, <<>> when the error has no such
\* field (undefined)
StatusOf(error) ==
  IF "statusCode" \in DOMAIN error THEN <<error.statusCode>> ELSE <<>>

BodyOf(error) ==
  IF "responseBody" \in DOMAIN error THEN error.responseBody ELSE <<>>

\* what node-fetch rejects with when no response is received
FetchError == [name |-> "FetchError"]
\* what response.json() rejects with when the body is not JSON
SyntaxError == [name |-> "SyntaxError"]
\* what reading a property of null throws
TypeError == [name |-> "TypeError"]
\* new Error('Request failed after retries')
RequestFailedError ==
  [name |-> "Error", message |-> [text |-> "Request failed after retries"]]

(***************************************************************************)
(* handleErrorResponse.  A response body is one of five shapes:            *)
(*   "json_message"  JSON object with a non-empty message field            *)
(*   "json_plain"    JSON object without a message field                   *)
(*   "json_null"     the JSON text null                                    *)
(*   "text"          non-empty text that JSON.parse rejects                *)
(*   "empty"         the empty string (JSON.parse rejects it)              *)
(***************************************************************************)
Bodies == {"json_message", "json_plain", "json_null", "text", "empty"}

\* the value JSON.parse gives the text null
JsonNull == [null |-> TRUE]

\* errorData: JSON.parse(body), or { message: body } when parsing throws.
\* An absent message and an empty one are both "" (both are falsy).
ErrorData(body) ==
  CASE body = "json_message" -> [parsed |-> TRUE, message |-> "api message"]
    [] body = "json_plain" -> [parsed |-> TRUE, message |-> ""]
    [] body = "json_null" -> JsonNull
    [] body = "text" -> [parsed |-> FALSE, message |-> "raw text"]
    [] body = "empty" -> [parsed |-> FALSE, message |-> ""]

\* reading errorData.message throws when errorData is null
MessageReadThrows(body) == ErrorData(body) = JsonNull

\* const message = errorData.message || `HTTP ${response.status}`
ErrorMessage(status, body) ==
  IF ErrorData(body).message # ""
    THEN [text |-> ErrorData(body).message, http |-> <<>>]
    ELSE [text |-> "HTTP", http |-> <<status>>]

\* the error handleErrorResponse throws: the TypeError of line 333 when the
\* body parses to null, otherwise the error of the switch, where prefix is
\* the text the switch puts before (and, for 403, around) the message
handleErrorResponse(status, body, attempt, maxRetries) ==
  LET errorData == ErrorData(body)
      message == ErrorMessage(status, body)
      msg(prefix) == [prefix |-> prefix, detail |-> message]
  IN IF MessageReadThrows(body) THEN TypeError ELSE
     CASE status = 400 -> MeshyError(msg("Bad Request"), 400, <<errorData>>)
       [] status = 401 -> MeshyAuthError(msg("Unauthorized"))
       [] status = 402 -> MeshyPaymentError(msg("Payment Required"))
       [] status = 403 -> MeshyError(msg("Forbidden (check CORS)"), 403, <<errorData>>)
       [] status = 404 -> MeshyError(msg("Not Found"), 404, <<errorData>>)
       [] status = 429 ->
            IF attempt < maxRetries
              THEN MeshyRateLimitError(msg(""), <<errorData>>)
              ELSE MeshyRateLimitError(msg("Rate Limit Exceeded"), <<errorData>>)
       [] status \in {500, 502, 503, 504} ->
            IF attempt < maxRetries
              THEN MeshyError(msg("Server Error"), status, <<errorData>>)
              ELSE MeshyError(msg("Server Error (final)"), status, <<errorData>>)
       [] OTHER -> MeshyError(msg("Unexpected error"), status, <<errorData>>)

(***************************************************************************)
(* calculateBackoff.  random is the numerator k of Math.random() =         *)
(* k / RandDenom, so 0.3 * random = 3k / (10 * RandDenom).                 *)
(***************************************************************************)
RECURSIVE Pow2(_)
Pow2(n) == IF n <= 0 THEN 1 ELSE 2 * Pow2(n - 1)

Min(a, b) == IF a <= b THEN a ELSE b

\* a backoff that forgets the attempt index
ExponentialFlat(cfg, attempt) == cfg.baseDelay

\* exponential = baseDelay * 2^attempt
Exponential(cfg, attempt) == cfg.baseDelay * Pow2(attempt)

\* a backoff whose jitter is symmetric, (2 * Math.random() - 1) * 0.3
calculateBackoffSymmetric(cfg, attempt, random) ==
  LET exponential == cfg.baseDelay * Pow2(attempt)
      scaled == exponential * (10 * RandDenom)
                  + 3 * (2 * random - RandDenom) * exponential
  IN Min(scaled \div (10 * RandDenom), cfg.maxDelay)

\* Math.floor(Math.min(exponential + jitter, maxDelay)); the floor of the
\* minimum of a rational and an integer is the minimum of the floors.
calculateBackoff(cfg, attempt, random) ==
  LET exponential == Exponential(cfg, attempt)
      scaled == exponential * (10 * RandDenom) + 3 * random * exponential
  IN Min(scaled \div (10 * RandDenom), cfg.maxDelay)

(***************************************************************************)
(* checkRateLimit, its synchronous part.                                   *)
(***************************************************************************)
\* requestTimes.filter((time) => now - time < rateLimitWindow)
InWindow(times, t) == SelectSeq(times, LAMBDA time : t - time < rateLimitWindow)

\* a wait of the whole window, whatever the age of the oldest entry
WaitTimeWholeWindow(times, t) == rateLimitWindow

\* waitTime = rateLimitWindow - (now - oldestRequest), oldest = requestTimes[0]
WaitTime(times, t) == rateLimitWindow - (t - times[1])

\* TRUE when checkRateLimit suspends the caller
MustWait(times, t) ==
  /\ Len(InWindow(times, t)) >= requestsPerSecond
  /\ WaitTime(InWindow(times, t), t) > 0

(***************************************************************************)
(* Task polling.  Each API class has a poll operation with the same loop:  *)
(* fetch the task, return it when SUCCEEDED, throw when its status is one  *)
(* of the two the class tests for, otherwise wait intervalMs and go round  *)
(* again, and throw when maxRetries rounds have passed.                    *)
(*   "text3d"     TextTo3DAPI.pollTask, fetching with getTask              *)
(*   "rigging"    RiggingAPI.pollRiggingTask, fetching with request        *)
(*   "retexture"  RetextureAPI.pollRetextureTask, fetching with request    *)
(*   "animation"  AnimationsAPI.pollAnimationTask, fetching with request   *)
(***************************************************************************)
Families == {"text3d", "rigging", "retexture", "animation"}

\* the statuses the remote service gives a task
TaskStatuses ==
  {"PENDING", "IN_PROGRESS", "SUCCEEDED", "FAILED", "CANCELED", "EXPIRED"}

\* a poll that never throws on a FAILED task
FailureStatusesWithoutFailed(family) ==
  IF family \in {"text3d", "retexture"} THEN {"EXPIRED"} ELSE {"CANCELED"}

\* the statuses the poll operation of the family throws on
FailureStatuses(family) ==
  IF family \in {"text3d", "retexture"}
    THEN {"FAILED", "EXPIRED"}
    ELSE {"FAILED", "CANCELED"}

\* a poll that takes SUCCEEDED for one more status to wait on
InspectNeverReturns(family, status) ==
  IF status \in FailureStatuses(family) THEN "throw" ELSE "wait"

\* what the loop body does with the task it fetched
Inspect(family, status) ==
  CASE status = "SUCCEEDED" -> "return"
    [] status \in FailureStatuses(family) -> "throw"
    [] OTHER -> "wait"

\* a loop that goes round once more than maxRetries allows
LoopContinuesInclusive(index, maxRetries) == index <= maxRetries

\* the loop condition, i < maxRetries
LoopContinues(index, maxRetries) == index < maxRetries

\* the error thrown on a failure status: its message names the task and
\* the status (the wording around them differs from class to class)
TaskFailedError(family, taskId, status) ==
  [name |-> "Error",
   message |-> [text |-> "failed", family |-> family, taskId |-> <<taskId>>,
                status |-> <<status>>]]

\* the error thrown after the loop: its message names the task only
TaskTimedOutError(family, taskId) ==
  [name |-> "Error",
   message |-> [text |-> "timed out", family |-> family, taskId |-> <<taskId>>,
                status |-> <<>>]]

(***************************************************************************)
(* TextTo3DAPI.getTask: a fetch of its own, outside request, that tries    *)
(* again after a 404 while attempt < maxRetries.                           *)
(***************************************************************************)
\* a getTask that retries after a 404 whatever retryOn404 says
getTaskMaxRetriesAlways(retryOn404) == NotFoundRetries

\* const maxRetries = retryOn404 ? 3 : 0
getTaskMaxRetries(retryOn404) == IF retryOn404 THEN NotFoundRetries ELSE 0

\* a wait that does not grow with the attempt
waitMsFlat(attempt) == NotFoundWait

\* const waitMs = 2000 * (attempt + 1)
waitMs(attempt) == NotFoundWait * (attempt + 1)

\* new Error(`Failed to get task: ${response.status} - ${error}`)
GetTaskError(status, body) ==
  [name |-> "Error",
   message |-> [text |-> "Failed to get task", status |-> status, body |-> body]]

(***************************************************************************)
(* State.                                                                  *)
(***************************************************************************)
VARIABLES
  retryConfig,   \* this.retryConfig
  requestTimes,  \* this.requestTimes, oldest first
  now,           \* Date.now()
  callers,       \* the calls of request the caller makes in this run
  remote,        \* the non-2xx statuses the remote service answers with
  bodies,        \* the bodies its non-2xx responses come with
  jitter,        \* the numerators Math.random() draws from in this run
  pc,            \* per call: where the call of request stands
  attempt,       \* per call: the loop variable of request
  lastError,     \* per call: <<>> (null) or <<the error last caught>>
  wakeAt,        \* per call: when the pending setTimeout is due
  raised,        \* per call: <<>> or <<the error request threw>>
  lastOutcome,   \* per call: what the latest network attempt ended in
  onlyRetryable, \* per call: every attempt so far ended in 429 or 5xx
  fetches,       \* per call: network attempts made
  sleeps,        \* per call: backoff sleeps begun
  pushes,        \* per call: entries appended to requestTimes
  admissions,    \* per call: runs of checkRateLimit begun
  sentAt,        \* per call: when the attempt awaiting its response was sent
  inputs,        \* the arguments of the pure function under study
  output,        \* <<>> or <<its result>>
  poll,          \* the poll operation in progress: its frame and its tallies
  task           \* the task as the remote service holds it

execVars == <<retryConfig, requestTimes, now, callers, remote, bodies, jitter, pc, attempt,
              lastError, wakeAt, raised, lastOutcome, onlyRetryable, fetches,
              sleeps, pushes, admissions, sentAt>>
pureVars == <<inputs, output>>
pollVars == <<poll, task>>
vars == <<execVars, pureVars, pollVars>>

\* no poll operation is part of the run
NoPoll ==
  /\ poll = [pc |-> "none"]
  /\ task = [status |-> "none"]

\* the statuses the executor runs answer with: the terminal 4xx, the rate
\* limit, the server errors and one status the switch does not name
ErrorStatuses == {400, 401, 402, 403, 404, 429, 500, 502, 503, 504, 418}
RetryableStatuses == {429, 500, 502, 503, 504}

\* the statuses the get operations of the poll runs are answered with
PollStatuses == {401, 404, 429, 500}

\* the jitter draws of the executor runs: the least and the greatest
ExecDraws == {0, RandDenom - 1}

\* the bodies of the error responses of the executor runs: one that the
\* classification reads a message from and one that parses to null
ExecBodies == {"json_message", "json_null"}

\* the body of the error responses of the runs in which the remote service
\* answers with one kind of body only
ExecBody == "json_message"

\* what a network attempt ended in: type is "none", "ok", "error",
\* "transport" or "undecodable"; status and body are those of the response
Outcome(type, status, body) == [type |-> type, status |-> status, body |-> body]

(***************************************************************************)
(* request: the catch block and the end of the loop.  The error is caught  *)
(* whatever it is: with attempts left the call sleeps for the backoff,     *)
(* otherwise the loop ends and lastError is thrown.                        *)
(***************************************************************************)
\* a catch block with the retry test off by one: attempt <= maxRetries
CatchOneMore(c, error, random) ==
  /\ lastError' = [lastError EXCEPT ![c] = <<error>>]
  /\ IF attempt[c] <= retryConfig.maxRetries
       THEN /\ pc' = [pc EXCEPT ![c] = "backoff"]
            /\ wakeAt' = [wakeAt EXCEPT ![c] =
                            now + calculateBackoff(retryConfig, attempt[c], random)]
            /\ sleeps' = [sleeps EXCEPT ![c] = @ + 1]
            /\ UNCHANGED <<attempt, raised>>
       ELSE /\ pc' = [pc EXCEPT ![c] = "thrown"]
            /\ attempt' = [attempt EXCEPT ![c] = @ + 1]
            /\ raised' = [raised EXCEPT ![c] = lastError'[c]]
            /\ UNCHANGED <<wakeAt, sleeps>>

\* a catch block that computes the backoff for the next attempt index
CatchBackoffNextIndex(c, error, random) ==
  /\ lastError' = [lastError EXCEPT ![c] = <<error>>]
  /\ IF attempt[c] < retryConfig.maxRetries
       THEN /\ pc' = [pc EXCEPT ![c] = "backoff"]
            /\ wakeAt' = [wakeAt EXCEPT ![c] =
                            now + calculateBackoff(retryConfig, attempt[c] + 1, random)]
            /\ sleeps' = [sleeps EXCEPT ![c] = @ + 1]
            /\ UNCHANGED <<attempt, raised>>
       ELSE /\ pc' = [pc EXCEPT ![c] = "thrown"]
            /\ attempt' = [attempt EXCEPT ![c] = @ + 1]
            /\ raised' = [raised EXCEPT ![c] = lastError'[c]]
            /\ UNCHANGED <<wakeAt, sleeps>>

Catch(c, error, random) ==
  /\ lastError' = [lastError EXCEPT ![c] = <<error>>]
  /\ IF attempt[c] < retryConfig.maxRetries
       THEN /\ pc' = [pc EXCEPT ![c] = "backoff"]
            /\ wakeAt' = [wakeAt EXCEPT ![c] =
                            now + calculateBackoff(retryConfig, attempt[c], random)]
            /\ sleeps' = [sleeps EXCEPT ![c] = @ + 1]
            /\ UNCHANGED <<attempt, raised>>
       ELSE /\ pc' = [pc EXCEPT ![c] = "thrown"]
            /\ attempt' = [attempt EXCEPT ![c] = @ + 1]
            /\ raised' = [raised EXCEPT ![c] = lastError'[c]]
            /\ UNCHANGED <<wakeAt, sleeps>>

\* checkRateLimit up to its await, run by call c: prune the window, then
\* sleep for waitTime + 100 or return to request, which awaits it
checkRateLimit(c) ==
  /\ admissions' = [admissions EXCEPT ![c] = @ + 1]
  /\ requestTimes' = InWindow(requestTimes, now)
  /\ IF MustWait(requestTimes, now)
       THEN /\ pc' = [pc EXCEPT ![c] = "rateSleep"]
            /\ wakeAt' = [wakeAt EXCEPT ![c] =
                 now + WaitTime(InWindow(requestTimes, now), now) + rateLimitBuffer]
       ELSE /\ pc' = [pc EXCEPT ![c] = "ready"]
            /\ UNCHANGED wakeAt
  /\ UNCHANGED <<attempt, lastError, raised, lastOutcome, onlyRetryable, fetches,
                 sleeps, pushes, sentAt>>

\* request from its entry to the await of checkRateLimit.  The calls are
\* numbered in the order in which they start.
Start(c) ==
  /\ c \in callers
  /\ pc[c] = "idle"
  /\ \A d \in callers : d < c => pc[d] # "idle"
  /\ checkRateLimit(c)
  /\ UNCHANGED <<retryConfig, now, callers, remote, bodies, jitter, pureVars, pollVars>>

\* the sleep of checkRateLimit ends; request enters its loop
RateWake(c) ==
  /\ pc[c] = "rateSleep"
  /\ now >= wakeAt[c]
  /\ pc' = [pc EXCEPT ![c] = "ready"]
  /\ wakeAt' = [wakeAt EXCEPT ![c] = 0]
  /\ UNCHANGED <<retryConfig, requestTimes, now, callers, remote, bodies, jitter, attempt,
                 lastError, raised, lastOutcome, onlyRetryable, fetches,
                 sleeps, pushes, admissions, sentAt, pureVars, pollVars>>

\* a send that charges the rate window once per attempt
SendRecording(c) ==
  /\ pc[c] = "ready"
  /\ attempt[c] <= retryConfig.maxRetries
  /\ pc' = [pc EXCEPT ![c] = "awaiting"]
  /\ fetches' = [fetches EXCEPT ![c] = @ + 1]
  /\ sentAt' = [sentAt EXCEPT ![c] = now]
  /\ requestTimes' = Append(requestTimes, now)
  /\ pushes' = [pushes EXCEPT ![c] = @ + 1]
  /\ UNCHANGED <<retryConfig, now, callers, remote, bodies, jitter, attempt,
                 lastError, wakeAt, raised, lastOutcome, onlyRetryable, sleeps,
                 admissions, pureVars, pollVars>>

\* the loop condition attempt <= maxRetries holds and the body begins:
\* await fetch(url, ...), one network attempt is sent
Send(c) ==
  /\ pc[c] = "ready"
  /\ attempt[c] <= retryConfig.maxRetries
  /\ pc' = [pc EXCEPT ![c] = "awaiting"]
  /\ fetches' = [fetches EXCEPT ![c] = @ + 1]
  /\ sentAt' = [sentAt EXCEPT ![c] = now]
  /\ UNCHANGED <<retryConfig, requestTimes, now, callers, remote, bodies, jitter, attempt,
                 lastError, wakeAt, raised, lastOutcome, onlyRetryable, sleeps,
                 pushes, admissions, pureVars, pollVars>>

\* the loop condition fails with the call at the head of the loop: throw
\* lastError || new Error('Request failed after retries')
LoopEnds(c) ==
  /\ pc[c] = "ready"
  /\ ~(attempt[c] <= retryConfig.maxRetries)
  /\ pc' = [pc EXCEPT ![c] = "thrown"]
  /\ raised' = [raised EXCEPT ![c] = IF lastError[c] # <<>>
                                       THEN lastError[c]
                                       ELSE <<RequestFailedError>>]
  /\ UNCHANGED <<retryConfig, requestTimes, now, callers, remote, bodies, jitter,
                 attempt, lastError, wakeAt, lastOutcome, onlyRetryable, fetches,
                 sleeps, pushes, admissions, sentAt, pureVars, pollVars>>

\* a transport failure that is rethrown at once, never retried
FetchFailsTerminal(c) ==
  /\ pc[c] = "awaiting"
  /\ sentAt' = [sentAt EXCEPT ![c] = 0]
  /\ lastOutcome' = [lastOutcome EXCEPT ![c] = Outcome("transport", 0, "")]
  /\ onlyRetryable' = [onlyRetryable EXCEPT ![c] = FALSE]
  /\ lastError' = [lastError EXCEPT ![c] = <<FetchError>>]
  /\ raised' = [raised EXCEPT ![c] = <<FetchError>>]
  /\ pc' = [pc EXCEPT ![c] = "thrown"]
  /\ UNCHANGED <<retryConfig, requestTimes, now, callers, remote, bodies, jitter,
                 attempt, wakeAt, sleeps, fetches, pushes, admissions, pureVars, pollVars>>

\* fetch rejects: no response was received
FetchFails(c) ==
  /\ pc[c] = "awaiting"
  /\ sentAt' = [sentAt EXCEPT ![c] = 0]
  /\ lastOutcome' = [lastOutcome EXCEPT ![c] = Outcome("transport", 0, "")]
  /\ onlyRetryable' = [onlyRetryable EXCEPT ![c] = FALSE]
  /\ \E random \in jitter : Catch(c, FetchError, random)
  /\ UNCHANGED <<retryConfig, requestTimes, now, callers, remote, bodies, jitter, fetches,
                 pushes, admissions, pureVars, pollVars>>

\* a response that is not ok: handleErrorResponse throws into the catch
ErrorResponse(c) ==
  /\ pc[c] = "awaiting"
  /\ sentAt' = [sentAt EXCEPT ![c] = 0]
  /\ \E status \in remote, body \in bodies :
       /\ lastOutcome' = [lastOutcome EXCEPT ![c] = Outcome("error", status, body)]
       /\ onlyRetryable' = [onlyRetryable EXCEPT ![c] =
                              @ /\ status \in RetryableStatuses]
       /\ \E random \in jitter :
            Catch(c, handleErrorResponse(status, body, attempt[c],
                                         retryConfig.maxRetries), random)
  /\ UNCHANGED <<retryConfig, requestTimes, now, callers, remote, bodies, jitter, fetches,
                 pushes, admissions, pureVars, pollVars>>

\* a 2xx response whose time is put at the front of requestTimes (unshift)
OkReceivedUnshift(c) ==
  /\ pc[c] = "awaiting"
  /\ sentAt' = [sentAt EXCEPT ![c] = 0]
  /\ requestTimes' = <<now>> \o requestTimes
  /\ pushes' = [pushes EXCEPT ![c] = @ + 1]
  /\ lastOutcome' = [lastOutcome EXCEPT ![c] = Outcome("ok", 200, "")]
  /\ pc' = [pc EXCEPT ![c] = "decoding"]
  /\ UNCHANGED <<retryConfig, now, callers, remote, bodies, jitter, attempt, lastError, wakeAt,
                 raised, onlyRetryable, fetches, sleeps, admissions, pureVars, pollVars>>

\* fetch resolves with a 2xx response: the time is recorded, and the call
\* awaits response.json()
OkReceived(c) ==
  /\ pc[c] = "awaiting"
  /\ sentAt' = [sentAt EXCEPT ![c] = 0]
  /\ requestTimes' = Append(requestTimes, now)
  /\ pushes' = [pushes EXCEPT ![c] = @ + 1]
  /\ lastOutcome' = [lastOutcome EXCEPT ![c] = Outcome("ok", 200, "")]
  /\ pc' = [pc EXCEPT ![c] = "decoding"]
  /\ UNCHANGED <<retryConfig, now, callers, remote, bodies, jitter, attempt, lastError, wakeAt,
                 raised, onlyRetryable, fetches, sleeps, admissions, pureVars, pollVars>>

\* response.json() resolves: the decoded body is returned
OkResponse(c) ==
  /\ pc[c] = "decoding"
  /\ pc' = [pc EXCEPT ![c] = "returned"]
  /\ UNCHANGED <<retryConfig, requestTimes, now, callers, remote, bodies, jitter, attempt,
                 lastError, wakeAt, raised, lastOutcome, onlyRetryable, fetches,
                 sleeps, pushes, admissions, sentAt, pureVars, pollVars>>

\* response.json() rejects, the body is not JSON: the rejection lands in
\* the catch, after the time was recorded
OkUndecodable(c) ==
  /\ pc[c] = "decoding"
  /\ lastOutcome' = [lastOutcome EXCEPT ![c] = Outcome("undecodable", 200, "")]
  /\ onlyRetryable' = [onlyRetryable EXCEPT ![c] = FALSE]
  /\ \E random \in jitter : Catch(c, SyntaxError, random)
  /\ UNCHANGED <<retryConfig, requestTimes, now, callers, remote, bodies, jitter, fetches,
                 pushes, admissions, sentAt, pureVars, pollVars>>

\* the backoff sleep ends; the loop goes on to the next attempt
BackoffWake(c) ==
  /\ pc[c] = "backoff"
  /\ now >= wakeAt[c]
  /\ pc' = [pc EXCEPT ![c] = "ready"]
  /\ attempt' = [attempt EXCEPT ![c] = @ + 1]
  /\ wakeAt' = [wakeAt EXCEPT ![c] = 0]
  /\ UNCHANGED <<retryConfig, requestTimes, now, callers, remote, bodies, jitter, lastError,
                 raised, lastOutcome, onlyRetryable, fetches, sleeps,
                 pushes, admissions, sentAt, pureVars, pollVars>>

\* time passes while a call is still to start or in progress: to the next
\* due timer, or by TickMs
Sleeping == {c \in Calls : pc[c] \in {"rateSleep", "backoff"} /\ wakeAt[c] > now}

Tick ==
  /\ \E c \in callers : pc[c] \notin {"returned", "thrown"}
  /\ \E t \in {wakeAt[c] : c \in Sleeping} \cup {now + TickMs} :
       /\ t <= MaxTime
       /\ now' = t
  /\ UNCHANGED <<retryConfig, requestTimes, callers, remote, bodies, jitter, pc, attempt,
                 lastError, wakeAt, raised, lastOutcome, onlyRetryable, fetches,
                 sleeps, pushes, admissions, sentAt, pureVars, pollVars>>

(***************************************************************************)
(* Initial states: a client just constructed with some retry               *)
(* configuration, or one that has already completed some requests at       *)
(* time 0, with no call of request in progress.                            *)
(***************************************************************************)
\* the partial configurations handed to the constructor, which validates
\* none: maxRetries = -1 is one for which the loop condition of request is
\* false from the start (as it is for any negative maxRetries, and for
\* undefined and NaN, which make every comparison false)
ExecConfigs ==
  {MergeConfig([maxRetries |-> m, baseDelay |-> b]) :
     m \in -1 .. MaxMaxRetries, b \in {200, DefaultBaseDelay}}
  \cup {MergeConfig([maxRetries |-> m, retryOn |-> {429}]) : m \in 1 .. MaxMaxRetries}

\* requestTimes after n requests completed at time 0
Completed(n) == [i \in 1 .. n |-> 0]

InitCalls ==
  /\ now = 0
  /\ pc = [c \in Calls |-> "idle"]
  /\ attempt = [c \in Calls |-> 0]
  /\ lastError = [c \in Calls |-> <<>>]
  /\ wakeAt = [c \in Calls |-> 0]
  /\ raised = [c \in Calls |-> <<>>]
  /\ lastOutcome = [c \in Calls |-> Outcome("none", 0, "")]
  /\ onlyRetryable = [c \in Calls |-> TRUE]
  /\ fetches = [c \in Calls |-> 0]
  /\ sleeps = [c \in Calls |-> 0]
  /\ pushes = [c \in Calls |-> 0]
  /\ admissions = [c \in Calls |-> 0]
  /\ sentAt = [c \in Calls |-> 0]

\* one call of request, any answer of the remote service
Init ==
  /\ retryConfig \in ExecConfigs
  /\ requestTimes \in {Completed(n) : n \in {0, requestsPerSecond}}
  /\ callers = {1}
  /\ remote = ErrorStatuses
  /\ bodies = ExecBodies
  /\ jitter = ExecDraws
  /\ InitCalls
  /\ inputs = <<>>
  /\ output = <<>>
  /\ NoPoll

Next ==
  \/ \E c \in Calls : Start(c)
  \/ \E c \in Calls : RateWake(c)
  \/ \E c \in Calls : Send(c)
  \/ \E c \in Calls : LoopEnds(c)
  \/ \E c \in Calls : FetchFails(c)
  \/ \E c \in Calls : ErrorResponse(c)
  \/ \E c \in Calls : OkReceived(c)
  \/ \E c \in Calls : OkResponse(c)
  \/ \E c \in Calls : OkUndecodable(c)
  \/ \E c \in Calls : BackoffWake(c)
  \/ Tick

Spec == Init /\ [][Next]_vars

\* one call of request on an event loop that keeps going: the clock
\* advances while the call is in progress, and a timer that is due fires.
\* The remote service answers with 2xx, 429 or not at all.
InitLive ==
  /\ retryConfig \in ExecConfigs
  /\ requestTimes \in {Completed(n) : n \in {0, requestsPerSecond}}
  /\ callers = {1}
  /\ remote = {429}
  /\ bodies = {ExecBody}
  /\ jitter = ExecDraws
  /\ InitCalls
  /\ inputs = <<>>
  /\ output = <<>>
  /\ NoPoll

SpecLive ==
  /\ InitLive
  /\ [][Next]_vars
  /\ WF_vars(Tick)
  /\ \A c \in Calls : WF_vars(RateWake(c))

\* every call of the run in flight on the one client, the remote service
\* answering with 2xx, 429 or not at all
InitConcurrent ==
  /\ retryConfig \in {MergeConfig([maxRetries |-> m]) : m \in {-1, 1}}
  /\ requestTimes \in {Completed(n) :
                         n \in {requestsPerSecond - 1, requestsPerSecond}}
  /\ callers = Calls
  /\ remote = {429}
  /\ bodies = {ExecBody}
  /\ jitter = {RandDenom - 1}
  /\ InitCalls
  /\ inputs = <<>>
  /\ output = <<>>
  /\ NoPoll

SpecConcurrent == InitConcurrent /\ [][Next]_vars

(***************************************************************************)
(* calculateBackoff as a pure function: a client constructed with some     *)
(* baseDelay and maxDelay computes the delays of two attempt indices       *)
(* i < j, each with its own draw of Math.random().                         *)
(***************************************************************************)
\* the configurations the constructor is handed; it validates none of them
BackoffConfigs ==
  {MergeConfig([baseDelay |-> b, maxDelay |-> m]) :
     b \in {0, 1, 300, DefaultBaseDelay, 5000}, m \in {1000, DefaultMaxDelay}}

InitBackoff ==
  /\ retryConfig \in BackoffConfigs
  /\ requestTimes = <<>>
  /\ callers = {}
  /\ remote = {}
  /\ bodies = {}
  /\ jitter = 0 .. RandDenom - 1
  /\ InitCalls
  /\ inputs \in [i : 0 .. MaxBackoffAttempt, j : 0 .. MaxBackoffAttempt,
                 ri : 0 .. RandDenom - 1, rj : 0 .. RandDenom - 1]
  /\ inputs.i < inputs.j
  /\ output = <<>>
  /\ NoPoll

\* the two delays are computed
ApplyBackoff ==
  /\ output = <<>>
  /\ DOMAIN inputs = {"i", "j", "ri", "rj"}
  /\ output' = <<[di |-> calculateBackoff(retryConfig, inputs.i, inputs.ri),
                  dj |-> calculateBackoff(retryConfig, inputs.j, inputs.rj)]>>
  /\ UNCHANGED <<execVars, inputs, pollVars>>

NextBackoff == ApplyBackoff

SpecBackoff == InitBackoff /\ [][NextBackoff]_vars

(***************************************************************************)
(* One poll operation.  poll holds the frame of the operation: family,     *)
(* taskId and maxRetries are its arguments, i is the loop variable,        *)
(* attempt the loop variable of the getTask call in progress, wakeAt the   *)
(* time at which the timer the operation waits on is due, pc the position: *)
(*   "loop"      at the loop condition                                     *)
(*   "getTask"   in getTask, about to fetch                                *)
(*   "wait404"   in getTask, waiting after a 404                           *)
(*   "request"   awaiting the call of request the get operation makes      *)
(*   "interval"  waiting intervalMs                                        *)
(*   "returned"  the poll returned result[1]                               *)
(*   "thrown"    the poll threw error[1]                                   *)
(* and the rest tallies what the operation did: observed the statuses it   *)
(* read in order, calls the get operations begun, fetches the fetches of   *)
(* getTask, waits the interval waits begun, waits404 the waits of the      *)
(* getTask call in progress, absorbed the 404s getTask tried again after,  *)
(* failure the way the get operation failed, admitted the get operations   *)
(* that are calls of request (and so begin with checkRateLimit);           *)
(* retryOn404 is the argument getTask is called with (pollTask leaves it   *)
(* at its default).  The get operation of the rigging, retexture and       *)
(* animation classes is one call of request: it runs as the call PollCall  *)
(* of the executor above, on the requestTimes of the client.  A response   *)
(* arrives at the time its request was sent, and the clock moves when the  *)
(* one pending timer fires.                                                *)
(***************************************************************************)
\* the identifiers of the tasks polled
TaskIds == {"task-a", "task-b"}

\* the call of request a get operation makes
PollCall == 1

\* the locals and the tallies of the calls of request
callVars == <<pc, attempt, lastError, wakeAt, raised, lastOutcome, onlyRetryable,
              fetches, sleeps, pushes, admissions, sentAt>>

\* the client and what the run draws from
clientVars == <<retryConfig, requestTimes, now, remote, bodies, jitter>>

\* the poll after the loop body read the status of the task it fetched
Inspected(frame, status) ==
  LET seen == [frame EXCEPT !.observed = Append(@, status)]
  IN CASE Inspect(frame.family, status) = "return" ->
            [seen EXCEPT !.pc = "returned",
                         !.result = <<[id |-> frame.taskId, status |-> status]>>]
       [] Inspect(frame.family, status) = "throw" ->
            [seen EXCEPT !.pc = "thrown",
                         !.error = <<TaskFailedError(frame.family, frame.taskId,
                                                     status)>>]
       [] OTHER -> [seen EXCEPT !.pc = "interval", !.waits = @ + 1,
                                !.wakeAt = now + IntervalMs]

\* the loop condition holds: the body calls the get operation of the
\* class: getTask, or a get operation that is one call of request, which
\* begins with checkRateLimit
CallFetch ==
  /\ poll.pc = "loop"
  /\ LoopContinues(poll.i, poll.maxRetries)
  /\ poll' = [poll EXCEPT !.pc = IF poll.family = "text3d" THEN "getTask"
                                                            ELSE "request",
                          !.attempt = 0, !.waits404 = <<>>, !.calls = @ + 1,
                          !.admitted = IF poll.family = "text3d" THEN @ ELSE @ + 1]
  /\ IF poll.family = "text3d"
       THEN UNCHANGED <<callers, requestTimes, callVars>>
       ELSE /\ callers' = {PollCall}
            /\ checkRateLimit(PollCall)
  /\ UNCHANGED <<retryConfig, now, remote, bodies, jitter, pureVars, task>>

\* the loop condition fails: the throw after the loop
PollTimesOut ==
  /\ poll.pc = "loop"
  /\ ~LoopContinues(poll.i, poll.maxRetries)
  /\ poll' = [poll EXCEPT !.pc = "thrown",
                          !.error = <<TaskTimedOutError(poll.family, poll.taskId)>>]
  /\ UNCHANGED <<execVars, pureVars, task>>

\* getTask: the response is ok and the loop body reads the task
GetTaskOk ==
  /\ poll.pc = "getTask"
  /\ poll' = Inspected([poll EXCEPT !.fetches = @ + 1], task.status)
  /\ UNCHANGED <<execVars, pureVars, task>>

\* getTask: a 404 with attempts left, the wait begins
GetTaskNotFound ==
  /\ poll.pc = "getTask"
  /\ poll.attempt < getTaskMaxRetries(poll.retryOn404)
  /\ poll' = [poll EXCEPT !.fetches = @ + 1, !.pc = "wait404",
                          !.waits404 = Append(@, waitMs(poll.attempt)),
                          !.wakeAt = now + waitMs(poll.attempt),
                          !.absorbed = @ + 1]
  /\ UNCHANGED <<execVars, pureVars, task>>

\* getTask: the wait after a 404 is over, the next attempt
Wait404Elapsed ==
  /\ poll.pc = "wait404"
  /\ now >= poll.wakeAt
  /\ poll' = [poll EXCEPT !.attempt = @ + 1, !.pc = "getTask", !.wakeAt = 0]
  /\ UNCHANGED <<execVars, pureVars, task>>

\* a poll that waits and goes round again when getTask meets an error status
GetTaskFailsPollsOn ==
  /\ poll.pc = "getTask"
  /\ \E status \in remote :
       /\ status = 404 => ~(poll.attempt < getTaskMaxRetries(poll.retryOn404))
       /\ poll' = [poll EXCEPT !.fetches = @ + 1, !.pc = "interval",
                               !.waits = @ + 1, !.wakeAt = now + IntervalMs,
                               !.failure = <<[type |-> "http", status |-> status]>>]
  /\ UNCHANGED <<execVars, pureVars, task>>

\* getTask: any other response that is not ok; getTask throws and the
\* poll, which catches nothing, ends with that error
GetTaskFails ==
  /\ poll.pc = "getTask"
  /\ \E status \in remote :
       /\ status = 404 => ~(poll.attempt < getTaskMaxRetries(poll.retryOn404))
       /\ poll' = [poll EXCEPT !.fetches = @ + 1, !.pc = "thrown",
                               !.error = <<GetTaskError(status, ExecBody)>>,
                               !.failure = <<[type |-> "http", status |-> status]>>]
  /\ UNCHANGED <<execVars, pureVars, task>>

\* getTask: fetch rejects, or the body of an ok response is not JSON
GetTaskRejects ==
  /\ poll.pc = "getTask"
  /\ \E rejection \in {FetchError, SyntaxError} :
       poll' = [poll EXCEPT !.fetches = @ + 1, !.pc = "thrown",
                            !.error = <<rejection>>,
                            !.failure = <<[type |-> rejection.name, status |-> 0]>>]
  /\ UNCHANGED <<execVars, pureVars, task>>

\* the error handleErrorResponse gives the status at the last attempt of a
\* call of request
RequestError(status) ==
  handleErrorResponse(status, ExecBody, retryConfig.maxRetries,
                      retryConfig.maxRetries)

\* the locals of the call of request that is over are gone
CallIsOver ==
  /\ callers' = {}
  /\ pc' = [c \in Calls |-> "idle"]
  /\ attempt' = [c \in Calls |-> 0]
  /\ lastError' = [c \in Calls |-> <<>>]
  /\ wakeAt' = [c \in Calls |-> 0]
  /\ raised' = [c \in Calls |-> <<>>]
  /\ lastOutcome' = [c \in Calls |-> Outcome("none", 0, "")]
  /\ onlyRetryable' = [c \in Calls |-> TRUE]
  /\ fetches' = [c \in Calls |-> 0]
  /\ sleeps' = [c \in Calls |-> 0]
  /\ pushes' = [c \in Calls |-> 0]
  /\ admissions' = [c \in Calls |-> 0]
  /\ sentAt' = [c \in Calls |-> 0]

\* request returned the task and the loop body reads it
RequestReturns ==
  /\ poll.pc = "request"
  /\ pc[PollCall] = "returned"
  /\ poll' = Inspected(poll, task.status)
  /\ CallIsOver
  /\ UNCHANGED <<clientVars, pureVars, task>>

\* request threw the error of its last attempt, an error status; the
\* poll, which catches nothing, ends with that error
RequestRaises ==
  /\ poll.pc = "request"
  /\ pc[PollCall] = "thrown"
  /\ lastOutcome[PollCall].type = "error"
  /\ poll' = [poll EXCEPT !.pc = "thrown",
                          !.error = raised[PollCall],
                          !.failure = <<[type |-> "http",
                                         status |-> lastOutcome[PollCall].status]>>]
  /\ UNCHANGED <<execVars, pureVars, task>>

\* request threw the error of its last attempt, a rejection
RequestRejects ==
  /\ poll.pc = "request"
  /\ pc[PollCall] = "thrown"
  /\ lastOutcome[PollCall].type # "error"
  /\ poll' = [poll EXCEPT !.pc = "thrown",
                          !.error = raised[PollCall],
                          !.failure = <<[type |-> raised[PollCall][1].name,
                                         status |-> 0]>>]
  /\ UNCHANGED <<execVars, pureVars, task>>

\* the interval wait is over: i++ and back to the loop condition
IntervalElapsed ==
  /\ poll.pc = "interval"
  /\ now >= poll.wakeAt
  /\ poll' = [poll EXCEPT !.i = @ + 1, !.pc = "loop", !.wakeAt = 0]
  /\ UNCHANGED <<execVars, pureVars, task>>

\* the timers pending: the sleep of a call of request, the wait of the
\* poll or of getTask
PendingTimers ==
  {wakeAt[c] : c \in {d \in callers : pc[d] \in {"rateSleep", "backoff"}}}
    \cup (IF poll.pc \in {"interval", "wait404"} THEN {poll.wakeAt} ELSE {})

\* nothing runs until the earliest pending timer is due
TimerDue ==
  /\ \E t \in PendingTimers :
       /\ \A u \in PendingTimers : t <= u
       /\ now < t
       /\ now' = t
  /\ UNCHANGED <<retryConfig, requestTimes, callers, remote, bodies, jitter, callVars,
                 pureVars, pollVars>>

\* the remote service moves the task on: from PENDING to IN_PROGRESS, from
\* either to a final status.  The body of a response that has arrived
\* holds the status of the time it was sent at.
RemoteAdvance ==
  /\ task.status \in {"PENDING", "IN_PROGRESS"}
  /\ \A c \in callers : pc[c] \notin {"decoding", "returned"}
  /\ \E status \in TaskStatuses \ {"PENDING", task.status} :
       task' = [task EXCEPT !.status = status]
  /\ UNCHANGED <<execVars, pureVars, poll>>

\* a poll operation of some class is called for a task just created, with
\* some maxRetries; the client has the default configuration, the only
\* one the API classes construct it with
InitPoll ==
  /\ retryConfig = DEFAULT_RETRY_CONFIG
  /\ requestTimes = <<>>
  /\ callers = {}
  /\ remote = PollStatuses
  /\ bodies = {ExecBody}
  /\ jitter = {0}
  /\ InitCalls
  /\ inputs = <<>>
  /\ output = <<>>
  /\ \E family \in Families, taskId \in TaskIds, maxRetries \in 0 .. MaxPollRetries :
       poll = [family |-> family, taskId |-> taskId, maxRetries |-> maxRetries,
               pc |-> "loop", i |-> 0, attempt |-> 0, wakeAt |-> 0,
               observed |-> <<>>,
               calls |-> 0, fetches |-> 0, waits |-> 0, waits404 |-> <<>>,
               absorbed |-> 0, result |-> <<>>, error |-> <<>>,
               failure |-> <<>>, retryOn404 |-> TRUE, admitted |-> 0]
  /\ task = [id |-> poll.taskId, status |-> "PENDING"]

NextPoll ==
  \/ CallFetch
  \/ PollTimesOut
  \/ GetTaskOk
  \/ GetTaskNotFound
  \/ Wait404Elapsed
  \/ GetTaskFails
  \/ GetTaskRejects
  \/ \E c \in Calls : Send(c)
  \/ \E c \in Calls : FetchFails(c)
  \/ \E c \in Calls : ErrorResponse(c)
  \/ \E c \in Calls : OkReceived(c)
  \/ \E c \in Calls : OkResponse(c)
  \/ \E c \in Calls : OkUndecodable(c)
  \/ \E c \in Calls : BackoffWake(c)
  \/ RequestReturns
  \/ RequestRaises
  \/ RequestRejects
  \/ IntervalElapsed
  \/ TimerDue
  \/ RemoteAdvance

SpecPoll == InitPoll /\ [][NextPoll]_vars

(***************************************************************************)
(* One call of getTask made by a caller other than pollTask, with either   *)
(* value of retryOn404.  The frame is that of a poll of one round in which *)
(* the call has just begun; the task may be in any status by then.         *)
(***************************************************************************)
\* getTask: the response is ok and the task is returned to the caller
GetTaskReturns ==
  /\ poll.pc = "getTask"
  /\ poll' = [poll EXCEPT !.fetches = @ + 1, !.pc = "returned",
                          !.result = <<[id |-> poll.taskId, status |-> task.status]>>]
  /\ UNCHANGED <<execVars, pureVars, task>>

InitGetTask ==
  /\ retryConfig = DEFAULT_RETRY_CONFIG
  /\ requestTimes = <<>>
  /\ callers = {}
  /\ remote = ErrorStatuses
  /\ bodies = {ExecBody}
  /\ jitter = {}
  /\ InitCalls
  /\ inputs = <<>>
  /\ output = <<>>
  /\ \E taskId \in TaskIds, retryOn404 \in BOOLEAN :
       poll = [family |-> "text3d", taskId |-> taskId, maxRetries |-> 1,
               pc |-> "getTask", i |-> 0, attempt |-> 0, wakeAt |-> 0,
               observed |-> <<>>,
               calls |-> 1, fetches |-> 0, waits |-> 0, waits404 |-> <<>>,
               absorbed |-> 0, result |-> <<>>, error |-> <<>>,
               failure |-> <<>>, retryOn404 |-> retryOn404, admitted |-> 0]
  /\ task = [id |-> poll.taskId, status |-> "PENDING"]

NextGetTask ==
  \/ GetTaskReturns
  \/ GetTaskNotFound
  \/ Wait404Elapsed
  \/ GetTaskFails
  \/ GetTaskRejects
  \/ TimerDue
  \/ RemoteAdvance

SpecGetTask == InitGetTask /\ [][NextGetTask]_vars

(***************************************************************************)
(* handleErrorResponse as a pure function: a response with some status     *)
(* and body is classified at two points first and second of the retry      *)
(* loop of a client whose maxRetries is some value.                        *)
(***************************************************************************)
\* the statuses classified: those the switch names, and some it does not
ClassifyStatuses == ErrorStatuses \cup {304, 409, 501}

InitClassify ==
  /\ retryConfig \in {MergeConfig([maxRetries |-> m]) : m \in 0 .. MaxMaxRetries}
  /\ requestTimes = <<>>
  /\ callers = {}
  /\ remote = ClassifyStatuses
  /\ bodies = Bodies
  /\ jitter = {}
  /\ InitCalls
  /\ inputs \in [status : ClassifyStatuses, body : Bodies,
                 first : 0 .. MaxMaxRetries, second : 0 .. MaxMaxRetries]
  /\ inputs.first <= retryConfig.maxRetries
  /\ inputs.second <= retryConfig.maxRetries
  /\ output = <<>>
  /\ NoPoll

\* the response is classified at both points
ApplyClassify ==
  /\ output = <<>>
  /\ DOMAIN inputs = {"status", "body", "first", "second"}
  /\ output' = <<[first |-> handleErrorResponse(inputs.status, inputs.body,
                                inputs.first, retryConfig.maxRetries),
                  second |-> handleErrorResponse(inputs.status, inputs.body,
                                 inputs.second, retryConfig.maxRetries)]>>
  /\ UNCHANGED <<execVars, inputs, pollVars>>

NextClassify == ApplyClassify

SpecClassify == InitClassify /\ [][NextClassify]_vars

(***************************************************************************)
(* Properties of the request executor.                                     *)
(***************************************************************************)
Terminal4xx == {400, 401, 402, 403, 404}

\* the entries of requestTimes newer than one window
Recent == {i \in DOMAIN requestTimes : now - requestTimes[i] < rateLimitWindow}

\* C1: under every interleaving of request calls on one client, requestTimes
\* never holds more than requestsPerSecond entries newer than one second.
C1_WindowWithinCeiling == Cardinality(Recent) <= requestsPerSecond

\* C2: an attempt answered with a 4xx other than 429 ends the call at once
\* with that error: no backoff sleep and no further attempt follows it.
C2_Terminal4xxEndsCall ==
  \A c \in callers :
    (lastOutcome[c].type = "error" /\ lastOutcome[c].status \in Terminal4xx)
      => /\ pc[c] = "thrown"
         /\ raised[c] # <<>>
         /\ StatusOf(raised[c][1]) = <<lastOutcome[c].status>>

\* C3: a call whose attempts 0..k-1 were each answered with a retryable
\* status and whose attempt k was answered with a decodable 2xx (k <=
\* maxRetries) has returned after exactly k+1 network attempts and k backoff
\* sleeps, and has appended exactly one entry to requestTimes.
C3_RetryThenSuccess ==
  \A c \in callers :
    (pc[c] = "returned" /\ onlyRetryable[c])
      => /\ attempt[c] <= retryConfig.maxRetries
         /\ fetches[c] = attempt[c] + 1
         /\ sleeps[c] = attempt[c]
         /\ pushes[c] = 1
         /\ raised[c] = <<>>

\* the spec's case: 429 on attempts 0 and 1, 200 on attempt 2
C3_Witness ==
  \E c \in callers :
    /\ pc[c] = "returned"
    /\ onlyRetryable[c]
    /\ attempt[c] = 2
    /\ lastError[c] # <<>>
    /\ lastError[c][1].name = "MeshyRateLimitError"
    /\ pushes[c] = 1

\* C4: a call appends exactly one entry to requestTimes if it returns and
\* none if it fails, and never more than one.
C4_OneEntryPerCall ==
  \A c \in callers :
    /\ pushes[c] <= 1
    /\ pc[c] = "returned" => pushes[c] = 1
    /\ pc[c] = "thrown" => pushes[c] = 0

\* C5: a call makes at most maxRetries + 1 network attempts, with attempt
\* indices 0..maxRetries, and once the last of them has settled the call has
\* returned or raised (a call that may make no attempt is at the head of
\* the loop with the loop condition false: all it does is throw).
C5_BoundedAttempts ==
  \A c \in callers :
    /\ fetches[c] <= retryConfig.maxRetries + 1
    /\ pc[c] \in {"awaiting", "decoding", "backoff"} =>
         attempt[c] <= retryConfig.maxRetries
    /\ (/\ fetches[c] >= 1
        /\ fetches[c] = retryConfig.maxRetries + 1
        /\ pc[c] \notin {"awaiting", "decoding"})
         => pc[c] \in {"returned", "thrown"}
    /\ (pc[c] = "ready" /\ attempt[c] > retryConfig.maxRetries) => fetches[c] = 0

\* a call that has used all of its maxRetries + 1 = 3 attempts and raised
C5_Witness ==
  \E c \in callers :
    /\ retryConfig.maxRetries = 2
    /\ fetches[c] = 3
    /\ pc[c] = "thrown"

\* the error the final attempt (index maxRetries) produces from its outcome
FinalError(outcome) ==
  CASE outcome.type = "error" ->
         handleErrorResponse(outcome.status, outcome.body, retryConfig.maxRetries,
                             retryConfig.maxRetries)
    [] outcome.type = "transport" -> FetchError
    [] outcome.type = "undecodable" -> SyntaxError

\* C6: when all maxRetries + 1 attempts of a call have failed, the error
\* raised is the error of the final attempt, and when that attempt was
\* answered with an error status the error carries that status.
C6_RaisesLastError ==
  \A c \in callers :
    (pc[c] = "thrown" /\ fetches[c] >= 1 /\ fetches[c] = retryConfig.maxRetries + 1)
      => /\ raised[c] = <<FinalError(lastOutcome[c])>>
         /\ lastOutcome[c].type = "error"
              => StatusOf(raised[c][1]) = <<lastOutcome[c].status>>

\* C7: after a transport failure at attempt a the call backs off and makes
\* another attempt if a < maxRetries, and raises that transport error if a
\* was the last permitted attempt.
C7_TransportRetried ==
  \A c \in callers :
    lastOutcome[c].type = "transport"
      => \/ /\ pc[c] = "thrown"
            /\ fetches[c] = retryConfig.maxRetries + 1
            /\ raised[c] = <<FetchError>>
         \/ /\ pc[c] = "backoff"
            /\ attempt[c] < retryConfig.maxRetries
            /\ fetches[c] = attempt[c] + 1
            /\ sleeps[c] = fetches[c]
         \/ /\ pc[c] = "ready"
            /\ attempt[c] <= retryConfig.maxRetries
            /\ fetches[c] = attempt[c]
            /\ sleeps[c] = fetches[c]
         \/ /\ pc[c] = "awaiting"
            /\ attempt[c] >= 1
            /\ fetches[c] = attempt[c] + 1

\* a further attempt in flight after a transport failure
C7_Witness ==
  \E c \in callers :
    /\ lastOutcome[c].type = "transport"
    /\ pc[c] = "awaiting"
    /\ fetches[c] = 2
    /\ sleeps[c] = 1

\* C8: a non-2xx answer whose status is not in retryConfig.retryOn ends the
\* call at once, even when attempts remain.
C8_RetryOnlyConfigured ==
  \A c \in callers :
    (lastOutcome[c].type = "error" /\ lastOutcome[c].status \notin retryConfig.retryOn)
      => pc[c] = "thrown"

(***************************************************************************)
(* Properties of calculateBackoff.                                         *)
(***************************************************************************)
\* exponential + jitter > maxDelay: Math.min picks maxDelay
Clamped(cfg, index, random) ==
  Exponential(cfg, index) * (10 * RandDenom + 3 * random)
    > cfg.maxDelay * (10 * RandDenom)

\* C9: for every attempt index, jitter draw and configured baseDelay and
\* maxDelay, baseDelay <= calculateBackoff(attempt) <= maxDelay.
C9_DelayWithinBounds ==
  output # <<>>
    => /\ retryConfig.baseDelay <= output[1].di
       /\ output[1].di <= retryConfig.maxDelay
       /\ retryConfig.baseDelay <= output[1].dj
       /\ output[1].dj <= retryConfig.maxDelay

\* C9 as amended: the delay never exceeds maxDelay, and it is at least
\* baseDelay whenever baseDelay <= maxDelay.
C9_DelayWithinBoundsWhenOrdered ==
  output # <<>>
    => /\ output[1].di <= retryConfig.maxDelay
       /\ output[1].dj <= retryConfig.maxDelay
       /\ retryConfig.baseDelay <= retryConfig.maxDelay
            => /\ retryConfig.baseDelay <= output[1].di
               /\ retryConfig.baseDelay <= output[1].dj

\* a delay of attempt 0 with jitter, and a clamped delay, under an ordered
\* configuration
C9_Witness ==
  /\ output # <<>>
  /\ 0 < retryConfig.baseDelay
  /\ retryConfig.baseDelay <= retryConfig.maxDelay
  /\ inputs.i = 0
  /\ output[1].di > retryConfig.baseDelay
  /\ output[1].dj = retryConfig.maxDelay
  /\ Clamped(retryConfig, inputs.j, inputs.rj)

\* C10: for attempt indices i < j and any two jitter draws,
\* calculateBackoff(i) <= calculateBackoff(j) when neither delay is clamped.
C10_NonDecreasingUntilClamped ==
  (/\ output # <<>>
   /\ ~Clamped(retryConfig, inputs.i, inputs.ri)
   /\ ~Clamped(retryConfig, inputs.j, inputs.rj))
    => output[1].di <= output[1].dj

\* two unclamped delays, the earlier drawn with the greatest jitter and the
\* later with none
C10_Witness ==
  /\ output # <<>>
  /\ retryConfig.baseDelay > 0
  /\ ~Clamped(retryConfig, inputs.i, inputs.ri)
  /\ ~Clamped(retryConfig, inputs.j, inputs.rj)
  /\ inputs.ri = RandDenom - 1
  /\ inputs.rj = 0
  /\ output[1].di < output[1].dj

(***************************************************************************)
(* Properties of the poll operations.                                      *)
(***************************************************************************)
\* the statuses on which every poll operation waits and goes round again
NonTerminal == {"PENDING", "IN_PROGRESS"}

\* the status the poll read last
LastObserved == poll.observed[Len(poll.observed)]

\* C11: when the statuses a poll reads are k - 1 of PENDING / IN_PROGRESS
\* and then SUCCEEDED, and no get operation failed, the poll has returned
\* the task with status SUCCEEDED, after exactly k get operations and k - 1
\* interval waits, k <= maxRetries; in pollTask the fetches are k and one
\* more for each 404 getTask tried again after.
C11_SucceedsAfterKFetches ==
  LET k == Len(poll.observed)
  IN (/\ k >= 1
      /\ poll.observed[k] = "SUCCEEDED"
      /\ \A n \in 1 .. k - 1 : poll.observed[n] \in NonTerminal
      /\ poll.failure = <<>>)
     => /\ poll.pc = "returned"
        /\ poll.result = <<[id |-> poll.taskId, status |-> "SUCCEEDED"]>>
        /\ poll.error = <<>>
        /\ poll.calls = k
        /\ poll.waits = k - 1
        /\ k <= poll.maxRetries
        /\ poll.family = "text3d" => poll.fetches = k + poll.absorbed

\* pollTask read PENDING, IN_PROGRESS, SUCCEEDED in three fetches and returned
C11_Witness ==
  /\ poll.family = "text3d"
  /\ poll.taskId = "task-b"
  /\ poll.observed = <<"PENDING", "IN_PROGRESS", "SUCCEEDED">>
  /\ poll.pc = "returned"
  /\ poll.fetches = 3
  /\ poll.waits = 2

\* C12: when the last status a poll read is FAILED, the poll has thrown an
\* error whose message names the task polled and the status FAILED, and it
\* has returned no task.
C12_FailedStatusFailsPoll ==
  (Len(poll.observed) >= 1 /\ LastObserved = "FAILED")
  => /\ poll.pc = "thrown"
     /\ poll.result = <<>>
     /\ Len(poll.error) = 1
     /\ poll.error[1].message.text = "failed"
     /\ poll.error[1].message.taskId = <<poll.taskId>>
     /\ poll.error[1].message.status = <<"FAILED">>

\* pollAnimationTask read PENDING, then FAILED, and threw
C12_Witness ==
  /\ poll.family = "animation"
  /\ poll.observed = <<"PENDING", "FAILED">>
  /\ poll.pc = "thrown"
  /\ poll.error = <<TaskFailedError("animation", poll.taskId, "FAILED")>>

\* C13: in every class, when the last status a poll read is FAILED,
\* CANCELED or EXPIRED the poll has thrown an error naming the task and
\* that status (so it is not waiting to fetch again).
C13_EveryFinalStatusEndsPoll ==
  (Len(poll.observed) >= 1 /\ LastObserved \in {"FAILED", "CANCELED", "EXPIRED"})
  => /\ poll.pc = "thrown"
     /\ Len(poll.error) = 1
     /\ poll.error[1].message.taskId = <<poll.taskId>>
     /\ poll.error[1].message.status = <<LastObserved>>

\* C14: a poll never begins more than maxRetries get operations; when it
\* has read maxRetries statuses, all PENDING or IN_PROGRESS, it returns no
\* task, it has begun exactly maxRetries get operations and maxRetries
\* interval waits, and all that is left for it is the throw after the
\* loop, whose error says the task timed out (with maxRetries = 0 this is
\* the state the poll starts in: it throws without fetching).
C14_TimesOutAfterMaxAttempts ==
  /\ poll.calls <= poll.maxRetries
  /\ (/\ Len(poll.observed) = poll.maxRetries
      /\ \A n \in DOMAIN poll.observed : poll.observed[n] \in NonTerminal
      /\ poll.failure = <<>>)
     => /\ poll.pc \in {"interval", "loop", "thrown"}
        /\ poll.result = <<>>
        /\ poll.calls = poll.maxRetries
        /\ poll.waits = poll.maxRetries
        /\ poll.pc = "loop" => poll.i = poll.maxRetries
        /\ poll.pc = "thrown" =>
             /\ poll.error[1].message.text = "timed out"
             /\ poll.error[1].message.taskId = <<poll.taskId>>
             /\ poll.i = poll.maxRetries

\* pollRetextureTask, maxRetries = 2, read two statuses and timed out
C14_Witness ==
  /\ poll.family = "retexture"
  /\ poll.maxRetries = 2
  /\ poll.observed = <<"PENDING", "IN_PROGRESS">>
  /\ poll.pc = "thrown"
  /\ poll.error = <<TaskTimedOutError("retexture", poll.taskId)>>
  /\ poll.calls = 2

\* C15: the error a poll throws of itself (on a failure status, or after
\* the loop) names the task and the status the poll read last.
C15_PollErrorsCarryIdAndStatus ==
  (poll.pc = "thrown" /\ poll.failure = <<>> /\ Len(poll.observed) >= 1)
  => /\ poll.error[1].message.taskId = <<poll.taskId>>
     /\ poll.error[1].message.status = <<LastObserved>>

\* C16: in pollTask a 404 met by getTask with attempts left is followed by
\* a wait of 2000 ms times the number of the fetch within the call (2000,
\* 4000, 6000: at most NotFoundRetries of them in a call) and then by one
\* more fetch, and it leaves the loop variable of the poll alone: however
\* many 404s a call tried again after, the call is still the (i + 1)-th of
\* the poll, the statuses read so far are i, and a poll that ended without
\* a failure made one fetch for each status it read and one for each 404.
C16_NotFoundAbsorbed ==
  poll.family = "text3d" =>
    /\ poll.attempt <= NotFoundRetries
    /\ Len(poll.waits404) = poll.attempt + (IF poll.pc = "wait404" THEN 1 ELSE 0)
    /\ \A n \in DOMAIN poll.waits404 : poll.waits404[n] = NotFoundWait * n
    /\ poll.pc \in {"getTask", "wait404"} =>
         /\ poll.calls = poll.i + 1
         /\ Len(poll.observed) = poll.i
         /\ poll.i < poll.maxRetries
    /\ poll.failure = <<>> /\ poll.pc \in {"returned", "thrown"} =>
         poll.fetches = Len(poll.observed) + poll.absorbed

\* pollTask, maxRetries = 3: the first getTask waited 2000, 4000 and 6000 ms
\* after three 404s, its fourth fetch read PENDING, and the poll is in the
\* first of its three rounds
C16_Witness ==
  /\ poll.family = "text3d"
  /\ poll.maxRetries = 3
  /\ poll.waits404 = <<2000, 4000, 6000>>
  /\ poll.absorbed = 3
  /\ poll.observed = <<"PENDING">>
  /\ poll.fetches = 4
  /\ poll.calls = 1
  /\ poll.i = 0
  /\ poll.pc = "interval"

\* the error the poll threw is the failure of the get operation
SameFailure ==
  LET error == poll.error[1]
      failure == poll.failure[1]
  IN IF poll.family = "text3d"
       THEN IF failure.type = "http"
              THEN error = GetTaskError(failure.status, ExecBody)
              ELSE error.name = failure.type
       ELSE /\ poll.error = raised[PollCall]
            /\ error = FinalError(lastOutcome[PollCall])
            /\ failure.type = "http" => StatusOf(error) = <<failure.status>>

\* C17: once the get operation of a poll has failed (an error status that
\* getTask does not try again after, an error request threw, a rejection)
\* the poll has thrown that failure and returned no task, and it does
\* nothing more: no fetch, no wait.
C17_FetchFailureEndsPoll ==
  /\ [](poll.failure # <<>> =>
          /\ poll.pc = "thrown"
          /\ poll.result = <<>>
          /\ Len(poll.error) = 1
          /\ SameFailure)
  /\ [][poll.failure # <<>> => poll' = poll /\ fetches' = fetches]_vars

\* pollTask read one status, waited, and its second getTask met a 500
C17_Witness ==
  /\ poll.family = "text3d"
  /\ poll.observed = <<"PENDING">>
  /\ poll.failure = <<[type |-> "http", status |-> 500]>>
  /\ poll.pc = "thrown"
  /\ poll.fetches = 2
  /\ poll.waits = 1

(***************************************************************************)
(* Properties of the classification.                                       *)
(***************************************************************************)
\* the kind of failure an error stands for: told by its class and, for a
\* MeshyError, by the label handleErrorResponse puts on the message; an
\* error of no class of the client is "Generic"
KindOf(error) ==
  CASE error.name = "MeshyAuthError" -> "Unauthorized"
    [] error.name = "MeshyPaymentError" -> "PaymentRequired"
    [] error.name = "MeshyRateLimitError" -> "RateLimited"
    [] error.name = "MeshyError" ->
         CASE error.message.prefix = "Bad Request" -> "BadRequest"
           [] error.message.prefix = "Forbidden (check CORS)" -> "Forbidden"
           [] error.message.prefix = "Not Found" -> "NotFound"
           [] error.message.prefix \in {"Server Error", "Server Error (final)"} ->
                "ServerError"
           [] OTHER -> "Unexpected"
    [] OTHER -> "Generic"

\* C18: classification depends on the status and the body only: the two
\* classifications of one status and body, made at any two attempts of the
\* retry loop, are the same error (class, statusCode, message and
\* responseBody).
C18_SameClassification ==
  output # <<>> => output[1].first = output[1].second

\* C19: the error handleErrorResponse throws for a status has the kind the
\* status table gives (400 BadRequest, 401 Unauthorized, 402
\* PaymentRequired, 403 Forbidden, 404 NotFound, 429 RateLimited, 500 /
\* 502 / 503 / 504 ServerError, any other Unexpected) and its statusCode
\* is the status of the response.
C19_KindAndStatusPerTable ==
  output # <<>> =>
    LET status == inputs.status
        kind == CASE status = 400 -> "BadRequest"
                  [] status = 401 -> "Unauthorized"
                  [] status = 402 -> "PaymentRequired"
                  [] status = 403 -> "Forbidden"
                  [] status = 404 -> "NotFound"
                  [] status = 429 -> "RateLimited"
                  [] status \in {500, 502, 503, 504} -> "ServerError"
                  [] OTHER -> "Unexpected"
    IN \A error \in {output[1].first, output[1].second} :
         /\ KindOf(error) = kind
         /\ StatusOf(error) = <<status>>

\* C20: when a poll ends because the remote service answered the get
\* operation with an error status, the error the poll throws is of the
\* kind handleErrorResponse gives that status.
C20_SurfacesClassifiedKind ==
  (/\ poll.pc = "thrown"
   /\ poll.failure # <<>>
   /\ poll.failure[1].type = "http")
  => KindOf(poll.error[1]) = KindOf(RequestError(poll.failure[1].status))

(***************************************************************************)
(* Properties of the request executor: admission, the rate window and the  *)
(* backoff sleeps.                                                         *)
(***************************************************************************)
\* C21: within a call of request every network attempt has a run of
\* checkRateLimit of its own before it: the attempts sent never outnumber
\* the runs of checkRateLimit begun.
C21_AdmissionBeforeEveryAttempt ==
  \A c \in Calls : fetches[c] <= admissions[c]

(***************************************************************************)
(* Properties of the poll operations: the fetches behind them.             *)
(***************************************************************************)
\* C22: every get operation a poll begins goes through request, and so
\* begins with checkRateLimit.
C22_EveryFetchThroughExecutor ==
  poll.calls = poll.admitted

\* C23: over one pollTask the fetches are at most maxRetries plus the
\* NotFoundRetries extras, and getTask waits after a 404 only while the
\* poll has read no status yet.
C23_NotFoundBoundedPerPoll ==
  poll.family = "text3d" =>
    /\ poll.fetches <= poll.maxRetries + NotFoundRetries
    /\ poll.pc = "wait404" => poll.observed = <<>>

\* C24: a status a poll read before its last one is PENDING or
\* IN_PROGRESS, and once the last one is SUCCEEDED, FAILED, CANCELED or
\* EXPIRED the poll has ended.
C24_NoFetchAfterTerminal ==
  \A n \in DOMAIN poll.observed :
    poll.observed[n] \notin NonTerminal =>
      /\ n = Len(poll.observed)
      /\ poll.pc \in {"returned", "thrown"}

(***************************************************************************)
(* Properties of checkRateLimit and of the rate window.                    *)
(***************************************************************************)
\* the least of the recorded times still inside the window
OldestRecent ==
  CHOOSE t \in {requestTimes[i] : i \in Recent} :
    \A i \in Recent : t <= requestTimes[i]

\* C25: checkRateLimit raises nothing and always lets the call through.
\* With fewer entries inside the window than the ceiling it returns
\* without a sleep; otherwise it sleeps once, until rateLimitWindow -
\* (now - oldest entry) + 100 ms from now, and returns when that sleep is
\* over: the call reaches the retry loop from every sleep, and never
\* sleeps in checkRateLimit a second time.
C25_CheckRateLimitAdmits ==
  /\ [][\A c \in Calls :
          /\ (pc[c] = "idle" /\ pc'[c] # "idle") =>
               IF Cardinality(Recent) < requestsPerSecond
                 THEN pc'[c] = "ready"
                 ELSE /\ pc'[c] = "rateSleep"
                      /\ wakeAt'[c] = now + (rateLimitWindow - (now - OldestRecent))
                                          + 100
          /\ (pc[c] = "rateSleep" /\ pc'[c] # "rateSleep") => pc'[c] = "ready"
          /\ pc'[c] = "rateSleep" => pc[c] \in {"idle", "rateSleep"}]_vars
  /\ [](\A c \in Calls :
          pc[c] \in {"idle", "rateSleep"} => raised[c] = <<>> /\ fetches[c] = 0)
  /\ \A c \in Calls : (pc[c] = "rateSleep") ~> (pc[c] = "ready")

\* a call that found the 20 entries of time 0 inside the window slept
\* until 1100 and is in the retry loop, no attempt sent yet
C25_Witness ==
  /\ Len(requestTimes) = requestsPerSecond
  /\ now = 1100
  /\ pc[1] = "ready"
  /\ admissions[1] = 1
  /\ fetches[1] = 0
  /\ \A i \in DOMAIN requestTimes : requestTimes[i] = 0

\* C26: the time request appends to requestTimes on a 2xx response is the
\* time at which that attempt was sent.
C26_RecordsSendTime ==
  [][\A c \in Calls :
       (pc[c] = "awaiting" /\ pushes'[c] = pushes[c] + 1)
         => requestTimes'[Len(requestTimes')] = sentAt[c]]_vars

\* C27: the error handleErrorResponse throws carries the body of the
\* response (as parsed), the status of the response and the message, for
\* every status.
C27_ErrorCarriesBody ==
  output # <<>> =>
    \A error \in {output[1].first, output[1].second} :
      /\ BodyOf(error) = <<ErrorData(inputs.body)>>
      /\ StatusOf(error) = <<inputs.status>>
      /\ MessageReadThrows(inputs.body) \/
           error.message.detail = ErrorMessage(inputs.status, inputs.body)

\* C28: requestTimes is in non-decreasing order whatever the interleaving
\* of the calls, so the first entry left by the pruning of checkRateLimit
\* is the oldest one inside the window.
C28_RequestTimesOrdered ==
  /\ \A i, j \in DOMAIN requestTimes : i <= j => requestTimes[i] <= requestTimes[j]
  /\ Recent # {} => InWindow(requestTimes, now)[1] = OldestRecent

\* two calls in flight together had their responses at different times
C28_Witness ==
  /\ pushes[1] >= 1
  /\ pushes[2] >= 1
  /\ Len(requestTimes) >= 2
  /\ requestTimes[Len(requestTimes) - 1] < requestTimes[Len(requestTimes)]
  /\ requestTimes[Len(requestTimes) - 1] > 0

\* C29: in request a failed attempt is followed by a backoff sleep exactly
\* when attempt < maxRetries, for calculateBackoff(attempt) ms with some
\* draw of Math.random(); otherwise the error is thrown without a sleep.
\* Sleeps begin nowhere else, so a call that threw after an attempt has
\* made maxRetries + 1 attempts and maxRetries sleeps (one attempt and no
\* sleep when maxRetries = 0), and a call that made no attempt never slept.
C29_SleepIffAttemptsLeft ==
  /\ [][\A c \in Calls :
          /\ (/\ pc[c] \in {"awaiting", "decoding"}
              /\ pc'[c] \notin {"awaiting", "decoding", "returned"}) =>
               IF attempt[c] < retryConfig.maxRetries
                 THEN /\ pc'[c] = "backoff"
                      /\ sleeps'[c] = sleeps[c] + 1
                      /\ wakeAt'[c] - now \in
                           {calculateBackoff(retryConfig, attempt[c], random) :
                              random \in 0 .. RandDenom - 1}
                 ELSE /\ pc'[c] = "thrown"
                      /\ sleeps'[c] = sleeps[c]
                      /\ raised'[c] # <<>>
          /\ sleeps'[c] # sleeps[c] =>
               pc[c] \in {"awaiting", "decoding"} /\ pc'[c] = "backoff"]_vars
  /\ [](\A c \in Calls :
          /\ sleeps[c] = 0 \/ sleeps[c] <= retryConfig.maxRetries
          /\ (pc[c] = "thrown" /\ fetches[c] >= 1) =>
               /\ fetches[c] = retryConfig.maxRetries + 1
               /\ sleeps[c] = retryConfig.maxRetries
          /\ fetches[c] = 0 => sleeps[c] = 0)

\* a call with maxRetries = 2 whose three attempts failed: two sleeps, and
\* the error thrown
C29_Witness ==
  /\ retryConfig.maxRetries = 2
  /\ pc[1] = "thrown"
  /\ fetches[1] = 3
  /\ sleeps[1] = 2
  /\ raised[1] # <<>>

(***************************************************************************)
(* Properties of getTask.                                                  *)
(***************************************************************************)
\* C30: one call of getTask makes at most 4 fetches when retryOn404 is
\* true and exactly 1 when it is false.  An error status is thrown as the
\* 'Failed to get task' error of the fetch that met it; for a 404 that is
\* the last fetch the call may make.  The call is never at the head of its
\* loop with the loop condition false, so the throw after the loop is
\* never reached.
C30_GetTaskFetchBudget ==
  LET limit == IF poll.retryOn404 THEN 4 ELSE 1
  IN /\ poll.fetches <= limit
     /\ poll.fetches = poll.attempt + (IF poll.pc = "getTask" THEN 0 ELSE 1)
     /\ poll.pc = "getTask" => poll.attempt < limit
     /\ (poll.pc \in {"returned", "thrown"} /\ ~poll.retryOn404) => poll.fetches = 1
     /\ poll.pc = "thrown" =>
          /\ poll.result = <<>>
          /\ poll.failure # <<>>
          /\ poll.failure[1].type = "http" =>
               /\ poll.error = <<GetTaskError(poll.failure[1].status, ExecBody)>>
               /\ poll.failure[1].status = 404 => poll.fetches = limit

\* getTask with retryOn404: three 404s waited on, the fourth thrown
C30_Witness ==
  /\ poll.retryOn404
  /\ poll.waits404 = <<2000, 4000, 6000>>
  /\ poll.fetches = 4
  /\ poll.pc = "thrown"
  /\ poll.error = <<GetTaskError(404, ExecBody)>>

====
